---- MODULE Spec2Model ----
(***************************************************************************)
(* A model of the flight-delay dashboard dashtut.py: the module-level      *)
(* tables built at import time (sample10_df, airports_df), the four Dash   *)
(* callbacks that recompute summary tables and figures from them, and the  *)
(* controls of the flight-connection tab that feed two of the callbacks.   *)
(*                                                                         *)
(* A dataframe is a sequence of records (one record per row, one field per *)
(* column).  A missing number (pandas NaN) is the value NaN, a missing     *)
(* selection (Python None) is the value None, a column that a table does   *)
(* not have is the value NoCol in every row.  A mean is an exact fraction  *)
(* <<numerator, denominator>> in lowest terms, NaNF when there is nothing  *)
(* to average.  A figure is the data it plots.                             *)
(***************************************************************************)
EXTENDS Integers, Sequences, FiniteSets, TLC

VARIABLES
    sample10_df,        \* the sampled flight table (module level, line 15)
    airports_df,        \* the airport reference table (module level, line 12)
    startup_df,         \* sample10_df as it was when the module was loaded
    startup_airports,   \* airports_df as it was when the module was loaded
    merged_df,          \* the summary table computed at startup (line 45)
    quicksort_ties,     \* how this build's sort_values orders equal keys
    Origin_value,       \* value of dropdown 'Origin'
    Destination_value,  \* value of dropdown 'Destination'
    TimeFrame_value,    \* value of dropdown 'TimeFrame'
    Destination_options,\* options of dropdown 'Destination'
    last                \* the latest callback invocation: name, inputs, result

vars == <<sample10_df, airports_df, startup_df, startup_airports, merged_df,
          quicksort_ties, Origin_value, Destination_value, TimeFrame_value,
          Destination_options, last>>

----------------------------------------------------------------------------
(* Values *)

NaN == -999
NoCol == -1000
None == "None"
NaNF == <<0, 0>>

\* bounds of the model
MaxRows == 2
MaxRowsTab1 == 4
MaxRowsConn == 2

\* airport codes, carriers, months and hours in the order pandas sorts them
AirportCodes == <<"ATL", "JFK", "LAX", "SJU">>
Carriers == <<"AA", "DL">>
MonthNumbers == [i \in 1..12 |-> i]
HourNumbers == [i \in 1..25 |-> i - 1]

Airports == {AirportCodes[i] : i \in DOMAIN AirportCodes}

RECURSIVE GCD(_, _)
GCD(a, b) == IF b = 0 THEN a ELSE GCD(b, a % b)

\* the fraction n/d (d > 0, n >= 0) in lowest terms
Frac(n, d) == LET g == GCD(n, d) IN <<n \div g, d \div g>>

FracLess(a, b) == a[1] * b[2] < b[1] * a[2]

\* a + b, a missing operand counting as nothing (sum(axis=1) skips NaN)
FracAddSkipNa(a, b) ==
    IF a = NaNF THEN (IF b = NaNF THEN <<0, 1>> ELSE b)
    ELSE IF b = NaNF THEN a
    ELSE Frac(a[1] * b[2] + b[1] * a[2], a[2] * b[2])

RECURSIVE SumSeq(_)
SumSeq(s) == IF s = <<>> THEN 0 ELSE Head(s) + SumSeq(Tail(s))

\* the values of column col, missing ones dropped
NonNa(df, col) ==
    LET vals == [i \in DOMAIN df |-> df[i][col]]
    IN SelectSeq(vals, LAMBDA v : v # NaN)

\* Series.mean(): the mean of the values that are present
Mean(df, col) ==
    LET v == NonNa(df, col)
    IN IF v = <<>> THEN NaNF ELSE Frac(SumSeq(v), Len(v))

\* lambda x: x.mean() * 100
MeanTimes100(df, col) ==
    LET v == NonNa(df, col)
    IN IF v = <<>> THEN NaNF ELSE Frac(100 * SumSeq(v), Len(v))

\* Series.count(): the number of values that are present
Count(df, col) == Len(NonNa(df, col))

\* the keys of a groupby, sorted; order lists every possible key in order
GroupKeys(df, col, order) ==
    SelectSeq(order, LAMBDA k : \E i \in DOMAIN df : df[i][col] = k)

\* df[df[col] == v]: a new table, the rows of df are not shared with it
RowsWhere(df, col, v) == SelectSeq(df, LAMBDA r : r[col] = v)

\* DataFrame.nlargest(n, col), keep='first': positions of the n largest values
\* that are present, largest first, equal values in their order in the table
RECURSIVE NLargestFrom(_, _, _)
NLargestFrom(vals, n, taken) ==
    LET cand == {i \in DOMAIN vals : i \notin taken /\ vals[i] # NaNF}
    IN IF n = 0 \/ cand = {} THEN <<>>
       ELSE LET i == CHOOSE x \in cand : \A j \in cand :
                        /\ ~FracLess(vals[x], vals[j])
                        /\ (vals[j] = vals[x] => x <= j)
            IN <<i>> \o NLargestFrom(vals, n - 1, taken \cup {i})

nlargest(vals, n) == NLargestFrom(vals, n, {})

\* DataFrame.sort_values(col, ascending=False): positions by decreasing value,
\* missing values last in table order.  The default kind is quicksort, which
\* is not stable: equal values come out in an order the build decides (ties).
RECURSIVE SortDescFrom(_, _, _)
SortDescFrom(vals, ties, taken) ==
    LET cand == {i \in DOMAIN vals : i \notin taken /\ vals[i] # NaNF}
    IN IF cand = {} THEN <<>>
       ELSE LET i == CHOOSE x \in cand : \A j \in cand :
                        /\ ~FracLess(vals[x], vals[j])
                        /\ (vals[j] = vals[x] =>
                               IF ties = "first" THEN x <= j ELSE x >= j)
            IN <<i>> \o SortDescFrom(vals, ties, taken \cup {i})

sort_values_desc(vals, ties) ==
    LET idx == [i \in DOMAIN vals |-> i]
    IN SortDescFrom(vals, ties, {}) \o SelectSeq(idx, LAMBDA i : vals[i] = NaNF)

\* DataFrame.head(n)
head(s, n) == SubSeq(s, 1, IF Len(s) < n THEN Len(s) ELSE n)

----------------------------------------------------------------------------
(* First tab: summary table of the month-filtered sample *)

All == 0                \* the checklist value 'All'
MonthsNone == {-1}      \* selected_months = None

\* a variant without the 'All' branch
MutFilterMonths(df, selected_months) ==
    SelectSeq(df, LAMBDA r : r.Month \in selected_months)

\* lines 261-264: the rows the month checklist keeps
FilterMonths(df, selected_months) ==
    IF All \in selected_months THEN df
    ELSE SelectSeq(df, LAMBDA r : r.Month \in selected_months)

\* lines 267-269: groupby('Dest').agg(Avg_ArrDelay=('ArrDelay', 'mean'))
arrdelay_by_dest(df) ==
    LET keys == GroupKeys(df, "Dest", AirportCodes)
    IN [k \in DOMAIN keys |->
          [Dest |-> keys[k],
           Avg_ArrDelay |-> Mean(RowsWhere(df, "Dest", keys[k]), "ArrDelay")]]

\* a variant that averages the carrier delay in place of the weather delay
MutDelaySource == [Avg_WeatherDelay |-> "CarrierDelay", Avg_NASDelay |-> "NASDelay",
                   Avg_SecurityDelay |-> "SecurityDelay",
                   Avg_LateAircraft |-> "LateAircraftDelay"]

\* lines 275-278: the flight column each per-origin delay average is taken from
DelaySource == [Avg_WeatherDelay |-> "WeatherDelay", Avg_NASDelay |-> "NASDelay",
                Avg_SecurityDelay |-> "SecurityDelay",
                Avg_LateAircraft |-> "LateAircraftDelay"]

\* lines 272-282: groupby('Origin').agg(...) and the non-carrier sum
avg_metrics_by_origin(df) ==
    LET keys == GroupKeys(df, "Origin", AirportCodes)
        one(k) ==
            LET g == RowsWhere(df, "Origin", k)
                w == Mean(g, DelaySource.Avg_WeatherDelay)
                n == Mean(g, DelaySource.Avg_NASDelay)
                s == Mean(g, DelaySource.Avg_SecurityDelay)
                l == Mean(g, DelaySource.Avg_LateAircraft)
            IN [Origin |-> k,
                Avg_DepDelay |-> Mean(g, "DepDelay"),
                Pct_Cancelled |-> MeanTimes100(g, "Cancelled"),
                Avg_WeatherDelay |-> w,
                Avg_NASDelay |-> n,
                Avg_SecurityDelay |-> s,
                Avg_LateAircraft |-> l,
                Avg_NonCarrierDelay |->
                    FracAddSkipNa(FracAddSkipNa(FracAddSkipNa(w, n), s), l)]
    IN [k \in DOMAIN keys |-> one(keys[k])]

NaNStr == "nan"         \* a missing string cell

\* the row of table t whose column col is v, or none
Lookup(t, col, v) == SelectSeq(t, LAMBDA r : r[col] = v)

\* lines 285-287: outer merge on Dest = Origin (keys sorted), the airport code,
\* then the left merge with the airport table on local_code
merge_metrics(arr, avg, airports) ==
    LET keys == SelectSeq(AirportCodes, LAMBDA k :
                    \/ \E i \in DOMAIN arr : arr[i].Dest = k
                    \/ \E i \in DOMAIN avg : avg[i].Origin = k)
        one(k) ==
            LET a == Lookup(arr, "Dest", k)
                m == Lookup(avg, "Origin", k)
                p == Lookup(airports, "local_code", k)
                hasA == a # <<>>
                hasM == m # <<>>
                hasP == p # <<>>
            IN [Dest |-> IF hasA THEN k ELSE NaNStr,
                Avg_ArrDelay |-> IF hasA THEN a[1].Avg_ArrDelay ELSE NaNF,
                Origin |-> IF hasM THEN k ELSE NaNStr,
                Avg_DepDelay |-> IF hasM THEN m[1].Avg_DepDelay ELSE NaNF,
                Pct_Cancelled |-> IF hasM THEN m[1].Pct_Cancelled ELSE NaNF,
                Avg_WeatherDelay |-> IF hasM THEN m[1].Avg_WeatherDelay ELSE NaNF,
                Avg_NASDelay |-> IF hasM THEN m[1].Avg_NASDelay ELSE NaNF,
                Avg_SecurityDelay |-> IF hasM THEN m[1].Avg_SecurityDelay ELSE NaNF,
                Avg_LateAircraft |-> IF hasM THEN m[1].Avg_LateAircraft ELSE NaNF,
                Avg_NonCarrierDelay |->
                    IF hasM THEN m[1].Avg_NonCarrierDelay ELSE NaNF,
                airport_code |-> k,
                local_code |-> IF hasP THEN k ELSE NaNStr,
                latitude_deg |-> IF hasP THEN p[1].latitude_deg ELSE NaN,
                longitude_deg |-> IF hasP THEN p[1].longitude_deg ELSE NaN]
    IN [k \in DOMAIN keys |-> one(keys[k])]

\* lines 267-287: the summary table of a filtered subset
summary_table(filtered, airports) ==
    merge_metrics(arrdelay_by_dest(filtered), avg_metrics_by_origin(filtered),
                  airports)

\* the summary column each metric ranks by (lines 86-101 and 291-298)
MetricColumn(metric) ==
    CASE metric = "ArrDelay" -> "Avg_ArrDelay"
      [] metric = "Cancelled" -> "Pct_Cancelled"
      [] metric = "NonCarrierDelay" -> "Avg_NonCarrierDelay"
      [] metric = "DepDelay" -> "Avg_DepDelay"

Metrics == {"ArrDelay", "Cancelled", "NonCarrierDelay", "DepDelay"}

Column(t, col) == [i \in DOMAIN t |-> t[i][col]]

Pick(t, idx) == [i \in DOMAIN idx |-> t[idx[i]]]

\* lines 291-298: merged_df.nlargest(3, column of the metric)
top_airports(merged, metric) ==
    Pick(merged, nlargest(Column(merged, MetricColumn(metric)), 3))

\* lines 52-79: the points of the map and the 'Top 3 Airports' trace
create_airport_map(data, top) ==
    [points |-> data,
     top3 |-> [i \in DOMAIN top |->
                 [lat |-> top[i].latitude_deg, lon |-> top[i].longitude_deg,
                  text |-> top[i].Origin, airport_code |-> top[i].airport_code]]]

\* lines 84-106: the ten highest bars of the metric, or an empty bar chart
create_metric_chart(data, metric, ties) ==
    IF metric \in Metrics
    THEN LET col == MetricColumn(metric)
             top10 == head(Pick(data, sort_values_desc(Column(data, col), ties)), 10)
         IN [title |-> col,
             x |-> Column(top10, "airport_code"),
             y |-> Column(top10, col)]
    ELSE [title |-> "Select a metric to view data", x |-> <<>>, y |-> <<>>]

\* lines 305-311: flights per month of the sampled table
monthly_line_chart(df) ==
    LET keys == GroupKeys(df, "Month", MonthNumbers)
    IN [x |-> keys,
        y |-> [k \in DOMAIN keys |-> Len(RowsWhere(df, "Month", keys[k]))]]

NoResult == <<>>

\* lines 258-313: what update_map_and_chart returns or raises
update_map_and_chart_result(df, airports, ties, selected_metric, selected_months) ==
    IF selected_months = MonthsNone
    THEN [error |-> "TypeError", out |-> NoResult]           \* line 261
    ELSE IF selected_metric \notin Metrics
    THEN [error |-> "UnboundLocalError", out |-> NoResult]   \* line 301
    ELSE LET filtered == FilterMonths(df, selected_months)
             merged == summary_table(filtered, airports)
             top == top_airports(merged, selected_metric)
         IN [error |-> "",
             out |-> [merged_df |-> merged,
                      map_figure |-> create_airport_map(merged, top),
                      chart_figure |-> create_metric_chart(merged, selected_metric, ties),
                      line_chart |-> monthly_line_chart(df)]]

----------------------------------------------------------------------------
(* Second tab: origin airport analysis *)

\* line 331: `if origin_airport:` (None is false, an airport code is true)
Truthy(origin_airport) == origin_airport # None

\* lines 331-334: the rows analysed; with no origin df_routes IS sample10_df
df_routes_of(df, origin_airport) ==
    IF Truthy(origin_airport) THEN RowsWhere(df, "Origin", origin_airport) ELSE df

\* every (Origin, Dest) pair in the order groupby sorts them
RoutePairs ==
    LET n == Len(AirportCodes)
    IN [k \in 1..(n * n) |->
          <<AirportCodes[((k - 1) \div n) + 1], AirportCodes[((k - 1) % n) + 1]>>]

RouteRows(df, pair) == SelectSeq(df, LAMBDA r : r.Origin = pair[1] /\ r.Dest = pair[2])

HasCoords(airports, code) == Lookup(airports, "local_code", code) # <<>>

\* lines 337-359: one line per route whose two airports have coordinates
\* (groupby drops the groups with a missing key)
route_map(routes, airports) ==
    LET keys == SelectSeq(RoutePairs, LAMBDA p :
                    /\ RouteRows(routes, p) # <<>>
                    /\ HasCoords(airports, p[1]) /\ HasCoords(airports, p[2]))
    IN [k \in DOMAIN keys |->
          [Origin |-> keys[k][1], Dest |-> keys[k][2],
           FlightNum |-> Count(RouteRows(routes, keys[k]), "FlightNum")]]

\* lines 374-375: the five most flown routes
top_routes(routes) ==
    LET keys == SelectSeq(RoutePairs, LAMBDA p : RouteRows(routes, p) # <<>>)
        flights == [k \in DOMAIN keys |-> <<Len(RouteRows(routes, keys[k])), 1>>]
    IN Pick(keys, nlargest(flights, 5))

\* lines 378-381: distance flown per carrier on the top routes
carrier_competition(routes) ==
    LET top == top_routes(routes)
        leaves == [k \in 1..(Len(top) * Len(Carriers)) |->
                     <<top[((k - 1) \div Len(Carriers)) + 1],
                       Carriers[((k - 1) % Len(Carriers)) + 1]>>]
        rows(l) == SelectSeq(RouteRows(routes, l[1]), LAMBDA r : r.UniqueCarrier = l[2])
        used == SelectSeq(leaves, LAMBDA l : rows(l) # <<>>)
    IN [k \in DOMAIN used |->
          [Origin |-> used[k][1][1], Dest |-> used[k][1][2],
           UniqueCarrier |-> used[k][2],
           Distance |-> SumSeq(NonNa(rows(used[k]), "Distance"))]]

\* lines 385-393: per destination counts and means, cancellations in percent
performance_metrics(routes) ==
    LET keys == GroupKeys(routes, "Dest", AirportCodes)
        one(k) == LET g == RowsWhere(routes, "Dest", k)
                  IN [Dest |-> k,
                      FlightNum |-> <<Count(g, "FlightNum"), 1>>,
                      ArrDelay |-> Mean(g, "ArrDelay"),
                      Cancelled |-> MeanTimes100(g, "Cancelled"),
                      AirTime |-> Mean(g, "AirTime")]
    IN [k \in DOMAIN keys |-> one(keys[k])]

RouteMetrics == {"flights", "delay"}

\* lines 397-404
y_val(metric) == IF metric = "flights" THEN "FlightNum" ELSE "ArrDelay"

\* lines 408-413: the ten destinations with the highest value
nr_flights_fig(perf, metric) ==
    LET top10 == Pick(perf, nlargest(Column(perf, y_val(metric)), 10))
    IN [title |-> y_val(metric),
        x |-> Column(top10, "Dest"), y |-> Column(top10, y_val(metric))]

\* line 421: (DepTime / 100).astype(int)
HourOf(DepTime) == DepTime \div 100

\* line 421: df_routes['Hour'] = ...
WithHour(routes) == [i \in DOMAIN routes |-> [routes[i] EXCEPT !.Hour = HourOf(routes[i].DepTime)]]

\* lines 422-436: flights per departure hour
time_fig(routes) ==
    LET h == WithHour(routes)
        keys == GroupKeys(h, "Hour", HourNumbers)
    IN [x |-> keys,
        y |-> [k \in DOMAIN keys |-> Count(RowsWhere(h, "Hour", keys[k]), "FlightNum")]]

\* lines 328-446: what origin_airport_analysis returns or raises
origin_airport_analysis_result(df, airports, origin_airport, metric) ==
    IF metric \notin RouteMetrics
    THEN [error |-> "UnboundLocalError", out |-> NoResult]     \* line 409
    ELSE LET routes == df_routes_of(df, origin_airport)
         IN IF \E i \in DOMAIN routes : routes[i].DepTime = NaN
            THEN [error |-> "IntCastingNaNError", out |-> NoResult]  \* line 421
            ELSE [error |-> "",
                  out |-> [map_fig |-> route_map(routes, airports),
                           competition_fig |-> carrier_competition(routes),
                           performance_metrics |-> performance_metrics(routes),
                           nr_flights_fig |->
                               nr_flights_fig(performance_metrics(routes), metric),
                           time_fig |-> time_fig(routes)]]

\* a variant in which the filtered rows replace the module-level table
MutTableAfterOriginAnalysis(df, airports, origin_airport, metric) ==
    IF origin_airport_analysis_result(df, airports, origin_airport, metric).error = ""
    THEN WithHour(df_routes_of(df, origin_airport))
    ELSE df

\* line 421 writes the column Hour into df_routes; when df_routes is
\* sample10_df itself (line 334) the module-level table gets the column,
\* otherwise the write lands in the filtered copy
TableAfterOriginAnalysis(df, airports, origin_airport, metric) ==
    IF /\ ~Truthy(origin_airport)
       /\ origin_airport_analysis_result(df, airports, origin_airport, metric).error = ""
    THEN WithHour(df)
    ELSE df

----------------------------------------------------------------------------
(* Third tab: flight connection analysis *)

\* lines 456-464: the options of the Destination dropdown and the message
dynamic_dropdown(df, airports, origin) ==
    IF origin = None
    THEN [options |-> <<>>, message |-> <<>>]
    ELSE LET codes == {df[i].Dest : i \in {j \in DOMAIN df : df[j].Origin = origin}}
             destinations == SelectSeq(airports, LAMBDA a : a.iata_code \in codes)
         IN [options |-> [i \in DOMAIN destinations |->
                            [label |-> <<destinations[i].iata_code, destinations[i].name>>,
                             value |-> destinations[i].iata_code]],
             message |-> <<Len(destinations)>>]

weekdays == <<"Monday", "Tuesday", "Wednesday", "Thursday", "Friday", "Saturday",
              "Sunday">>
months == <<"January", "February", "March", "April", "May", "June", "July",
            "August", "September", "October", "November", "December">>
delayTypes == <<"CarrierDelay", "WeatherDelay", "NASDelay", "SecurityDelay",
                "LateAircraftDelay">>

EmptyFigure == [data |-> <<>>]

\* a variant that keeps every flight of the origin
MutSelectedData(df, Origin, Destination) == RowsWhere(df, "Origin", Origin)

\* line 487: the flights of the selected connection (a new table)
SelectedData(df, Origin, Destination) ==
    SelectSeq(df, LAMBDA r : r.Origin = Origin /\ r.Dest = Destination)

\* a variant that tests the delay before the cancellation and diversion flags
MutHandledelaytype(row) ==
    IF row.ArrDelay # NaN /\ row.ArrDelay > 60 THEN "Severe Delay (>60 min)"
    ELSE IF row.ArrDelay # NaN /\ row.ArrDelay > 15
         THEN "Considerable Delay (>15 min, <60 min)"
    ELSE IF row.Cancelled = 1 THEN "Cancelled"
    ELSE IF row.Diverted = 1 THEN "Diverted"
    ELSE "Negligable Delay (<15 min)"

\* lines 542-551 (a comparison with a missing ArrDelay is false)
handledelaytype(row) ==
    IF row.Cancelled = 1 THEN "Cancelled"
    ELSE IF row.Diverted = 1 THEN "Diverted"
    ELSE IF row.ArrDelay # NaN /\ row.ArrDelay > 60 THEN "Severe Delay (>60 min)"
    ELSE IF row.ArrDelay # NaN /\ row.ArrDelay > 15
         THEN "Considerable Delay (>15 min, <60 min)"
    ELSE "Negligable Delay (<15 min)"

DelayLabels == <<"Cancelled", "Diverted", "Severe Delay (>60 min)",
                 "Considerable Delay (>15 min, <60 min)",
                 "Negligable Delay (<15 min)">>

\* lines 495-496 and 499-500: the column mapped to names, then the mean arrival
\* delay per name, reindexed to all names
avg_delay(selected, col, names) ==
    LET named == [i \in DOMAIN selected |->
                    [selected[i] EXCEPT ![col] = names[selected[i][col]]]]
    IN [k \in DOMAIN names |-> Mean(RowsWhere(named, col, names[k]), "ArrDelay")]

\* lines 553-554: the delay type of every row, then the rows per type
delaycounts(selected) ==
    LET typed == [i \in DOMAIN selected |-> handledelaytype(selected[i])]
        labels == SelectSeq(DelayLabels, LAMBDA l : \E i \in DOMAIN typed : typed[i] = l)
    IN [k \in DOMAIN labels |->
          [label |-> labels[k],
           value |-> Cardinality({i \in DOMAIN typed : typed[i] = labels[k]})]]

\* line 530: rows per carrier
carriercontribution(selected) ==
    LET keys == GroupKeys(selected, "UniqueCarrier", Carriers)
    IN [k \in DOMAIN keys |->
          [label |-> keys[k],
           value |-> Len(RowsWhere(selected, "UniqueCarrier", keys[k]))]]

TimeFrames == {"Day", "Month"}

AllEmpty == [delayfigure |-> EmptyFigure, delayPieChart |-> EmptyFigure,
             carriercomparison |-> EmptyFigure, delaydistribution |-> EmptyFigure]

\* lines 477-568: what flight_connection_analysis_update returns or raises
flight_connection_analysis_update_result(df, Origin, Destination, timeframe) ==
    IF Origin = None \/ Destination = None
    THEN [error |-> "", out |-> AllEmpty]                        \* line 485
    ELSE LET selected == SelectedData(df, Origin, Destination)
         IN IF selected = <<>>
            THEN [error |-> "", out |-> AllEmpty]                \* line 489
            ELSE IF timeframe \notin TimeFrames
            THEN [error |-> "UnboundLocalError", out |-> NoResult]   \* line 504
            ELSE [error |-> "",
                  out |-> [delayfigure |->
                               IF timeframe = "Month"
                               THEN [x |-> months,
                                     y |-> avg_delay(selected, "Month", months)]
                               ELSE [x |-> weekdays,
                                     y |-> avg_delay(selected, "DayOfWeek", weekdays)],
                           delayPieChart |->
                               [labels |-> delayTypes,
                                values |-> [k \in DOMAIN delayTypes |->
                                              Mean(selected, delayTypes[k])]],
                           carriercomparison |-> carriercontribution(selected),
                           delaydistribution |-> delaycounts(selected)]]

----------------------------------------------------------------------------
(* The tables at startup *)

\* one row of airlinedelaycauses_DelayedFlights.csv; delays lists the minutes
\* of CarrierDelay, WeatherDelay, NASDelay, SecurityDelay, LateAircraftDelay
Flight(o, d, m, dow, dep, arr, canc, div, carrier, delays) ==
    [Origin |-> o, Dest |-> d, Month |-> m, DayOfWeek |-> dow, DepTime |-> dep,
     ArrDelay |-> arr, DepDelay |-> IF arr = NaN THEN 40 ELSE arr + 5,
     Cancelled |-> canc, Diverted |-> div, UniqueCarrier |-> carrier,
     CarrierDelay |-> delays[1], WeatherDelay |-> delays[2], NASDelay |-> delays[3],
     SecurityDelay |-> delays[4], LateAircraftDelay |-> delays[5],
     FlightNum |-> 100 + dow, AirTime |-> IF canc = 1 THEN NaN ELSE 120,
     Distance |-> 500, Hour |-> NoCol]

NoDelays == <<NaN, NaN, NaN, NaN, NaN>>

\* flights the sample of the dashboard is drawn from
Flights ==
    << Flight("JFK", "LAX", 1, 1, 930, 20, 0, 0, "AA", <<20, 0, 0, 0, 0>>),
       Flight("JFK", "LAX", 2, 3, 1745, 75, 0, 0, "DL", <<0, 10, 5, 0, 60>>),
       Flight("JFK", "ATL", 1, 7, 615, NaN, 1, 0, "AA", NoDelays),
       Flight("LAX", "JFK", 12, 5, 2359, 15, 0, 0, "DL", NoDelays),
       Flight("ATL", "SJU", 2, 1, 1200, NaN, 0, 1, "AA", NoDelays),
       Flight("SJU", "JFK", 12, 6, 45, 61, 0, 0, "DL", <<30, 31, 0, 0, 0>>) >>

\* flights for the first tab: four origins, delay causes present, partly
\* missing and missing, cancelled and not
Tab1Flights ==
    << Flight("ATL", "JFK", 1, 1, 800, 30, 0, 0, "AA", <<10, 20, 0, 0, 0>>),
       Flight("ATL", "LAX", 2, 2, 900, 10, 0, 0, "DL", NoDelays),
       Flight("JFK", "LAX", 1, 3, 1000, NaN, 1, 0, "AA", NoDelays),
       Flight("JFK", "ATL", 12, 4, 1100, 70, 0, 0, "DL", <<0, 0, 30, 5, 35>>),
       Flight("LAX", "SJU", 2, 5, 1200, 20, 0, 0, "AA", <<20, 0, 0, 0, 0>>),
       Flight("LAX", "JFK", 1, 6, 1300, 17, 0, 0, "DL", <<5, NaN, 10, 0, 2>>),
       Flight("SJU", "ATL", 12, 7, 1400, 30, 0, 0, "AA", <<0, 15, 0, 15, 0>>) >>

\* flights for the connection tab: every combination of the flags and of the
\* arrival delays around the category limits on JFK-LAX, and two other routes
ArrDelays == <<NaN, 15, 16, 60, 61>>

ConnFlights ==
    [k \in 1..20 |->
        Flight("JFK", "LAX", 1 + (k % 2) * 11, 1 + (k % 7), 1010,
               ArrDelays[((k - 1) % 5) + 1], ((k - 1) \div 5) % 2, (k - 1) \div 10,
               Carriers[(k % 2) + 1], <<k, 0, NaN, 1, 2>>)]
    \o << Flight("JFK", "ATL", 3, 2, 700, 25, 0, 0, "AA", <<25, 0, 0, 0, 0>>),
          Flight("LAX", "JFK", 4, 4, 1600, 90, 0, 0, "DL", <<0, 0, 0, 0, 90>>) >>

\* the tables of 1..n rows drawn from a catalogue, in catalogue order
SubTables(catalogue, n) ==
    LET idx == [i \in DOMAIN catalogue |-> i]
    IN {Pick(catalogue, SelectSeq(idx, LAMBDA i : i \in S)) :
          S \in {T \in SUBSET DOMAIN catalogue : Cardinality(T) \in 1..n}}

\* line 12: us-airports.csv reduced to its five columns; the file lists the
\* airports of the United States, San Juan (SJU) is not among them
Airport(code, lat, lon) ==
    [local_code |-> code, latitude_deg |-> lat, longitude_deg |-> lon,
     name |-> code, iata_code |-> code]

UsAirports == <<Airport("JFK", 40, -73), Airport("ATL", 33, -84), Airport("LAX", 33, -118)>>

NoCall == [cb |-> "none", args |-> <<>>, result |-> [error |-> "", out |-> NoResult]]

\* lines 8-45: the module-level tables once the module is loaded
InitWith(samples, builds) ==
    /\ sample10_df \in samples
    /\ airports_df = UsAirports
    /\ startup_df = sample10_df
    /\ startup_airports = airports_df
    /\ merged_df = summary_table(sample10_df, airports_df)
    /\ quicksort_ties \in builds
    /\ Origin_value = "JFK"             \* line 213
    /\ Destination_value = None         \* lines 217-221
    /\ TimeFrame_value = "Day"          \* line 229
    /\ Destination_options = <<>>
    /\ last = NoCall

Init == InitWith(SubTables(Flights, MaxRows), {"first", "last"})

InitTab1 == InitWith(SubTables(Tab1Flights, MaxRowsTab1), {"first", "last"})

InitConn == InitWith(SubTables(ConnFlights, MaxRowsConn), {"first"})

----------------------------------------------------------------------------
(* The callbacks *)

\* the selections the controls can hand to a callback
MetricInputs == Metrics \cup {None}
MonthInputs == {{All}, {1}, {2}, {1, 12}, 1..12, {All, 1}, {}, MonthsNone}
OriginInputs(df) == {df[i].Origin : i \in DOMAIN df} \cup {None}
RouteMetricInputs == RouteMetrics \cup {None}
DestInputs(df) == {df[i].Dest : i \in DOMAIN df} \cup {None}
TimeFrameInputs == TimeFrames \cup {None}

tables == <<sample10_df, airports_df, startup_df, startup_airports, merged_df,
            quicksort_ties>>
controls == <<Origin_value, Destination_value, TimeFrame_value, Destination_options>>

\* lines 246-313
update_map_and_chart(selected_metric, selected_months) ==
    /\ last' = [cb |-> "update_map_and_chart",
                args |-> <<selected_metric, selected_months>>,
                result |-> update_map_and_chart_result(sample10_df, airports_df,
                               quicksort_ties, selected_metric, selected_months)]
    /\ UNCHANGED <<tables, controls>>

\* lines 318-446
origin_airport_analysis(origin_airport, metric) ==
    /\ last' = [cb |-> "origin_airport_analysis",
                args |-> <<origin_airport, metric>>,
                result |-> origin_airport_analysis_result(sample10_df, airports_df,
                               origin_airport, metric)]
    /\ sample10_df' = TableAfterOriginAnalysis(sample10_df, airports_df,
                                               origin_airport, metric)
    /\ UNCHANGED <<airports_df, startup_df, startup_airports, merged_df,
                   quicksort_ties, controls>>

\* lines 450-464, as a request with any origin
dynamic_dropdown_request(origin) ==
    /\ last' = [cb |-> "dynamic_dropdown", args |-> <<origin>>,
                result |-> [error |-> "",
                            out |-> dynamic_dropdown(sample10_df, airports_df, origin)]]
    /\ UNCHANGED <<tables, controls>>

\* lines 467-568, as a request with any inputs
flight_connection_analysis_update(Origin, Destination, timeframe) ==
    /\ last' = [cb |-> "flight_connection_analysis_update",
                args |-> <<Origin, Destination, timeframe>>,
                result |-> flight_connection_analysis_update_result(sample10_df,
                               Origin, Destination, timeframe)]
    /\ UNCHANGED <<tables, controls>>

FirstTab ==
    \E m \in MetricInputs, s \in MonthInputs : update_map_and_chart(m, s)

SecondTab ==
    \E o \in OriginInputs(sample10_df), m \in RouteMetricInputs :
        origin_airport_analysis(o, m)

ThirdTabOptions == \E o \in OriginInputs(sample10_df) : dynamic_dropdown_request(o)

ThirdTabFigures ==
    \E o \in OriginInputs(sample10_df), d \in DestInputs(sample10_df),
       t \in TimeFrameInputs :
        flight_connection_analysis_update(o, d, t)

Next == FirstTab \/ SecondTab \/ ThirdTabOptions \/ ThirdTabFigures

Spec == Init /\ [][Next]_vars

\* the first tab alone, over tables of up to MaxRowsTab1 flights
SpecTab1 == InitTab1 /\ [][FirstTab]_vars

----------------------------------------------------------------------------
(* The controls of the flight connection tab.  Changing a control makes Dash *)
(* run every callback that has the control as an Input (lines 450-475).     *)

OptionValues(options) == {options[i].value : i \in DOMAIN options}

\* dropdown 'Origin' (lines 209-216): an origin of the sample, or cleared;
\* dynamic_dropdown and flight_connection_analysis_update both run, the value
\* of 'Destination' stays as it is
ChangeOrigin(o) ==
    /\ Origin_value' = o
    /\ Destination_options' = dynamic_dropdown(sample10_df, airports_df, o).options
    /\ last' = [cb |-> "flight_connection_analysis_update",
                args |-> <<o, Destination_value, TimeFrame_value>>,
                result |-> flight_connection_analysis_update_result(sample10_df,
                               o, Destination_value, TimeFrame_value)]
    /\ UNCHANGED <<tables, Destination_value, TimeFrame_value>>

\* dropdown 'Destination' (lines 217-221): one of its current options, or cleared
ChangeDestination(d) ==
    /\ Destination_value' = d
    /\ last' = [cb |-> "flight_connection_analysis_update",
                args |-> <<Origin_value, d, TimeFrame_value>>,
                result |-> flight_connection_analysis_update_result(sample10_df,
                               Origin_value, d, TimeFrame_value)]
    /\ UNCHANGED <<tables, Origin_value, TimeFrame_value, Destination_options>>

\* dropdown 'TimeFrame' (lines 226-231): Day, Month, or cleared
ChangeTimeFrame(t) ==
    /\ TimeFrame_value' = t
    /\ last' = [cb |-> "flight_connection_analysis_update",
                args |-> <<Origin_value, Destination_value, t>>,
                result |-> flight_connection_analysis_update_result(sample10_df,
                               Origin_value, Destination_value, t)]
    /\ UNCHANGED <<tables, Origin_value, Destination_value, Destination_options>>

OriginControl == \E o \in OriginInputs(sample10_df) : ChangeOrigin(o)

DestinationControl ==
    \E d \in OptionValues(Destination_options) \cup {None} : ChangeDestination(d)

TimeFrameControl == \E t \in TimeFrameInputs : ChangeTimeFrame(t)

NextConn == OriginControl \/ DestinationControl \/ TimeFrameControl

\* the connection tab alone, driven through its three controls
SpecConn == InitConn /\ [][NextConn]_vars

----------------------------------------------------------------------------
(* Properties *)

IsCall(cb) == last.cb = cb
Ok == last.result.error = ""
Out == last.result.out

\* the rows of the sample a month selection keeps, stated from the checklist:
\* 'All' keeps every flight, otherwise the flights of the ticked months
SelectedFlights(df, selected_months) ==
    {i \in DOMAIN df : All \in selected_months \/ df[i].Month \in selected_months}

\* C1: after any sequence of callback invocations the sampled table and the
\* airport table have exactly the rows, columns and values they had at startup
C1_TablesUnchanged ==
    /\ sample10_df = startup_df
    /\ airports_df = startup_airports

EmptyFirstTab(out) ==
    /\ out.map_figure.points = <<>>
    /\ out.map_figure.top3 = <<>>
    /\ out.chart_figure.x = <<>>
    /\ out.line_chart.x = <<>>

EmptySecondTab(out) ==
    /\ out.map_fig = <<>>
    /\ out.competition_fig = <<>>
    /\ out.nr_flights_fig.x = <<>>
    /\ out.time_fig.x = <<>>

\* C2: a missing selection (None or an empty list) makes every callback return
\* empty charts (an empty option list for dynamic_dropdown) and never an error
C2_MissingSelectionGivesEmptyCharts ==
    /\ (IsCall("update_map_and_chart")
          /\ (last.args[1] = None \/ last.args[2] \in {MonthsNone, {}}))
       => (Ok /\ EmptyFirstTab(Out))
    /\ (IsCall("origin_airport_analysis")
          /\ (last.args[1] = None \/ last.args[2] = None))
       => (Ok /\ EmptySecondTab(Out))
    /\ (IsCall("dynamic_dropdown") /\ last.args[1] = None)
       => (Ok /\ Out.options = <<>>)
    /\ (IsCall("flight_connection_analysis_update")
          /\ (last.args[1] = None \/ last.args[2] = None \/ last.args[3] = None))
       => (Ok /\ Out = AllEmpty)

\* C3: with 'All' ticked (alone or with months) update_map_and_chart returns
\* the summary table, map, top 3 and bar chart of the flights of months 1..12
C3_AllEqualsEveryMonth ==
    (IsCall("update_map_and_chart") /\ Ok /\ All \in last.args[2])
    => /\ Out.merged_df =
            summary_table(SelectSeq(sample10_df, LAMBDA r : r.Month \in 1..12),
                          airports_df)
       /\ last.result = update_map_and_chart_result(sample10_df, airports_df,
                            quicksort_ties, last.args[1], 1..12)

C3_Witness ==
    /\ IsCall("update_map_and_chart") /\ Ok
    /\ last.args[2] = {All, 1}
    /\ \E i \in DOMAIN sample10_df : sample10_df[i].Month # 1
    /\ Len(Out.merged_df) >= 3

\* what each callback returns for given inputs when it reads the startup tables
ResultAtStartup ==
    CASE IsCall("update_map_and_chart") ->
            update_map_and_chart_result(startup_df, startup_airports, quicksort_ties,
                                        last.args[1], last.args[2])
      [] IsCall("origin_airport_analysis") ->
            origin_airport_analysis_result(startup_df, startup_airports,
                                           last.args[1], last.args[2])
      [] IsCall("dynamic_dropdown") ->
            [error |-> "",
             out |-> dynamic_dropdown(startup_df, startup_airports, last.args[1])]
      [] IsCall("flight_connection_analysis_update") ->
            flight_connection_analysis_update_result(startup_df, last.args[1],
                                                     last.args[2], last.args[3])

CauseSum(df, S, col) ==
    SumSeq(NonNa(SelectSeq(df, LAMBDA r : \E i \in S : df[i] = r), col))
CauseCount(df, S, col) == Cardinality({i \in S : df[i][col] # NaN})

\* n/d equals the sum of the four per-cause means over the flights S of df
IsNonCarrierAverage(v, df, S) ==
    LET d(c) == IF CauseCount(df, S, c) = 0 THEN 1 ELSE CauseCount(df, S, c)
        s(c) == IF CauseCount(df, S, c) = 0 THEN 0 ELSE CauseSum(df, S, c)
        dw == d("WeatherDelay")
        dn == d("NASDelay")
        ds == d("SecurityDelay")
        dl == d("LateAircraftDelay")
    IN /\ v # NaNF
       /\ v[1] * (dw * dn * ds * dl) =
          v[2] * (  s("WeatherDelay") * dn * ds * dl
                  + s("NASDelay") * dw * ds * dl
                  + s("SecurityDelay") * dw * dn * dl
                  + s("LateAircraftDelay") * dw * dn * ds)

WithoutCarrierDelay(df) == [i \in DOMAIN df |-> [df[i] EXCEPT !.CarrierDelay = 0]]

\* C5: for every airport of the summary table with departures in the filtered
\* subset, Avg_NonCarrierDelay is the sum of the mean weather, NAS, security and
\* late-aircraft minutes of those departures and does not change with the
\* carrier delays; the table computed at startup is the one recomputed for 'All'
C5_NonCarrierDelay ==
    (IsCall("update_map_and_chart") /\ Ok) =>
       LET sel == SelectedFlights(sample10_df, last.args[2])
           t == Out.merged_df
           filtered == FilterMonths(sample10_df, last.args[2])
           t0 == summary_table(WithoutCarrierDelay(filtered), airports_df)
       IN /\ \A k \in DOMAIN t :
                LET dep == {i \in sel : sample10_df[i].Origin = t[k].airport_code}
                IN IF dep = {}
                   THEN t[k].Avg_NonCarrierDelay = NaNF
                   ELSE IsNonCarrierAverage(t[k].Avg_NonCarrierDelay, sample10_df, dep)
          /\ Column(t, "Avg_NonCarrierDelay") = Column(t0, "Avg_NonCarrierDelay")
          /\ (All \in last.args[2]) => (t = merged_df)

C5_Witness ==
    /\ IsCall("update_map_and_chart") /\ Ok
    /\ All \notin last.args[2]
    /\ \E k \in DOMAIN Out.merged_df :
          /\ Out.merged_df[k].Avg_NonCarrierDelay = <<12, 1>>
          /\ Out.merged_df[k].airport_code = "LAX"
    /\ \E k \in DOMAIN Out.merged_df : Out.merged_df[k].Origin = NaNStr

\* C6: the airport map, the metric bar chart and the monthly flight chart are
\* each computed only from flights whose Month is among the selected months
C6_AllOutputsFromSelectedMonths ==
    (IsCall("update_map_and_chart") /\ Ok) =>
       LET sel == SelectedFlights(sample10_df, last.args[2])
           airportsOf == {sample10_df[i].Origin : i \in sel}
                            \cup {sample10_df[i].Dest : i \in sel}
           monthsOf == {sample10_df[i].Month : i \in sel}
       IN /\ \A k \in DOMAIN Out.map_figure.points :
                Out.map_figure.points[k].airport_code \in airportsOf
          /\ \A k \in DOMAIN Out.chart_figure.x : Out.chart_figure.x[k] \in airportsOf
          /\ \A k \in DOMAIN Out.line_chart.x :
                /\ Out.line_chart.x[k] \in monthsOf
                /\ Out.line_chart.y[k] =
                      Cardinality({i \in sel : sample10_df[i].Month = Out.line_chart.x[k]})

\* C7: the airports of the 'Top 3 Airports' trace are exactly the first three
\* airports of the bar chart of the same metric that have a value
C7_Top3AreFirstThreeBars ==
    (IsCall("update_map_and_chart") /\ Ok) =>
       LET bars == Out.chart_figure
           top == Out.map_figure.top3
           valued == {i \in DOMAIN bars.x : i <= 3 /\ bars.y[i] # NaNF}
       IN {top[i].airport_code : i \in DOMAIN top} = {bars.x[i] : i \in valued}

\* positions of the flights of the connection selected in the controls
Connection ==
    {i \in DOMAIN sample10_df :
        /\ sample10_df[i].Origin = Origin_value
        /\ sample10_df[i].Dest = Destination_value}

PieTotal(pie) == SumSeq([k \in DOMAIN pie |-> pie[k].value])

PieValue(pie, label) ==
    SumSeq([k \in DOMAIN pie |-> IF pie[k].label = label THEN pie[k].value ELSE 0])

\* C8: after any sequence of changes to Origin, Destination and TimeFrame the
\* four figures are built only from the flights whose Origin and Dest are the
\* selected values, and all four are empty when there is no such flight, as
\* with a Destination left over from a previous Origin
C8_FiguresOfSelectedConnection ==
    IsCall("flight_connection_analysis_update") =>
       /\ last.args = <<Origin_value, Destination_value, TimeFrame_value>>
       /\ (Connection = {}) => (Ok /\ Out = AllEmpty)
       /\ (Connection # {} /\ Ok) =>
             /\ PieTotal(Out.carriercomparison) = Cardinality(Connection)
             /\ \A k \in DOMAIN Carriers :
                   PieValue(Out.carriercomparison, Carriers[k]) =
                      Cardinality({i \in Connection :
                                      sample10_df[i].UniqueCarrier = Carriers[k]})
             /\ PieTotal(Out.delaydistribution) = Cardinality(Connection)
             /\ \A k \in DOMAIN delayTypes :
                   LET v == Out.delayPieChart.values[k]
                       n == CauseCount(sample10_df, Connection, delayTypes[k])
                   IN IF n = 0 THEN v = NaNF
                      ELSE v[1] * n =
                           v[2] * CauseSum(sample10_df, Connection, delayTypes[k])
             /\ \A k \in DOMAIN Out.delayfigure.y :
                   (Out.delayfigure.y[k] # NaNF) <=>
                      \E i \in Connection :
                         /\ sample10_df[i].ArrDelay # NaN
                         /\ k = IF TimeFrame_value = "Month"
                                THEN sample10_df[i].Month
                                ELSE sample10_df[i].DayOfWeek

C8_Witness ==
    /\ IsCall("flight_connection_analysis_update") /\ Ok
    /\ Origin_value # None /\ Destination_value # None
    /\ Destination_value \notin OptionValues(Destination_options)
    /\ \E i \in DOMAIN sample10_df : sample10_df[i].Origin = Origin_value
    /\ \E i \in DOMAIN sample10_df : sample10_df[i].Dest = Destination_value
    /\ Out = AllEmpty

\* C9: every selected flight is counted under exactly one category, Cancelled
\* before Diverted before Severe (ArrDelay > 60) before Considerable
\* (15 < ArrDelay <= 60), otherwise Negligible (ArrDelay 15 or less, or
\* missing); the counts of the Delay Distribution pie sum to the selection
C9_DelayCategories ==
    (IsCall("flight_connection_analysis_update") /\ Ok /\ Connection # {}) =>
       LET f(i) == sample10_df[i]
           cancelled == {i \in Connection : f(i).Cancelled = 1}
           diverted == {i \in Connection \ cancelled : f(i).Diverted = 1}
           flown == Connection \ (cancelled \cup diverted)
           severe == {i \in flown : f(i).ArrDelay # NaN /\ f(i).ArrDelay > 60}
           considerable == {i \in flown : /\ f(i).ArrDelay # NaN
                                          /\ f(i).ArrDelay > 15
                                          /\ f(i).ArrDelay <= 60}
           negligible == flown \ (severe \cup considerable)
           pie == Out.delaydistribution
       IN /\ PieValue(pie, "Cancelled") = Cardinality(cancelled)
          /\ PieValue(pie, "Diverted") = Cardinality(diverted)
          /\ PieValue(pie, "Severe Delay (>60 min)") = Cardinality(severe)
          /\ PieValue(pie, "Considerable Delay (>15 min, <60 min)") =
                Cardinality(considerable)
          /\ PieValue(pie, "Negligable Delay (<15 min)") = Cardinality(negligible)
          /\ PieTotal(pie) = Cardinality(Connection)
          /\ \A k \in DOMAIN pie : pie[k].value > 0

C9_Witness ==
    /\ IsCall("flight_connection_analysis_update") /\ Ok
    /\ \E i \in Connection :
          /\ sample10_df[i].Cancelled = 1 /\ sample10_df[i].ArrDelay = 61
    /\ \E i \in Connection :
          /\ sample10_df[i].Cancelled = 0 /\ sample10_df[i].Diverted = 0
          /\ sample10_df[i].ArrDelay \in {15, NaN}
    /\ PieValue(Out.delaydistribution, "Cancelled") = 1
    /\ PieValue(Out.delaydistribution, "Negligable Delay (<15 min)") = 1

====
